---- MODULE Spec2Model ----
(***************************************************************************)
(* Model of jki_to_jik.c: conversion of an on-disk 3-D array of doubles    *)
(* from the JKI layout to the JIK layout, with its optional initializer,   *)
(* its file size validation and its two I/O drivers (fd and stream).       *)
(*                                                                         *)
(* Files are sequences of 8-byte elements; an element position p is the    *)
(* byte offset 8*p.  The indices i, j, k and the positions are 0-based as  *)
(* in the C code; TLA+ sequences are 1-based, so n[0], n[1], n[2] of the   *)
(* code are n[1], n[2], n[3] here and position p of a file is data[p+1].   *)
(*                                                                         *)
(* Every call of the I/O driver is one action.  The result of a call is    *)
(* chosen by the environment among the results the call can deliver: the   *)
(* full transfer, a reported failure, and (fd driver) a short transfer.    *)
(* The stream driver is modelled write-through: what fwrite accepted is in *)
(* the file when the stream is flushed by fseeko, fclose or exit.          *)
(*                                                                         *)
(* Spec is the run of main.  HandleSpec is a client of the interface of a  *)
(* driver that opens and closes one handle in any order.  WordSpec follows *)
(* the unsigned arithmetic of the sizes and offsets in a scaled word.      *)
(***************************************************************************)
EXTENDS Integers, Sequences, FiniteSets, TLC

\* ------------------------------------------------------------------ bounds
\* Largest extent of one axis.
MaxDim == 3
\* Largest number of elements n0*n1*n2 of a cube.
MaxCells == 8
\* Largest number of anomalous I/O results the program tolerates in one run
\* (a short transfer, or a result the code does not look at).
MaxAnomalies == 1
\* Largest number of elements a pre-existing file has beyond n0*n1*n2.
MaxExtra == 1

\* Largest number of calls of close on one handle.
MaxCloses == 3

\* Width in bits of the scaled machine word of the arithmetic model (the
\* unsigned long and size_t of the program have 64), and the largest extent of
\* an axis there.
WordBits == 6
MaxWordDim == 3

\* ------------------------------------------------------- program constants
SizeofDouble == 8
EINVAL == 22
EEXIST == 17
ENOMEM == 12
ENOENT == 2
\* Stand-in for the error code a failed open/fstat/lseek/read/write leaves in
\* errno (any code other than EEXIST).
EIO == 5

\* status of a process that has not exited
Running == -1
\* a scratch-buffer cell malloc returned and nothing has filled yet
Uninit == -7
\* values an indeterminate (uninitialized) double may turn out to hold
Indeterminate == {-8, -9}

algorithm_names == <<"ijk_map", "jki_map", "jik_map", "vector_input", "vector_output", "matrix">>
io_driver_names == <<"fd", "stream">>

Range(s) == {s[x] : x \in DOMAIN s}

\* string_to_algorithm(s) != algorithm_invalid
string_to_algorithm(s) == IF s \in Range(algorithm_names) THEN s ELSE "invalid"
\* a parser of the driver name that accepts every name
string_to_io_driver_any(s) == s
string_to_io_driver(s) == IF s \in Range(io_driver_names) THEN s ELSE "invalid"

\* ---------------------------------------------------------- layout model
offset_ijk(n, i, j, k) == i * n[3] * n[2] + n[3] * j + k

offset_jki(n, i, j, k) == j * n[1] * n[3] + n[1] * k + i

\* offset_jik with the stride of i taken from the wrong axis
offset_jik_wrong_stride(n, i, j, k) == j * n[1] * n[3] + n[1] * i + k

offset_jik(n, i, j, k) == j * n[1] * n[3] + n[3] * i + k

Cells(n) == n[1] * n[2] * n[3]

\* the index cube [0,n0) x [0,n1) x [0,n2)
Cube(n) == (0 .. n[1] - 1) \X (0 .. n[2] - 1) \X (0 .. n[3] - 1)

\* l = sizeof(double) * n[0] * n[1] * n[2]
ExpectedLength(n) == SizeofDouble * n[1] * n[2] * n[3]

\* -------------------------------------------------------------- files
Absent == [exists |-> FALSE, data |-> <<>>]
FileOf(d) == [exists |-> TRUE, data |-> d]

\* st_size of a file
StSize(f) == SizeofDouble * Len(f.data)

Min(a, b) == IF a < b THEN a ELSE b
Max(a, b) == IF a > b THEN a ELSE b

\* The data of a file after `src` was written at element position p: a write
\* past the end of the file leaves a hole that reads as zero.
WriteAt(d, p, src) ==
    LET newlen == Max(Len(d), p + Len(src))
    IN [x \in 1 .. newlen |->
            IF x > p /\ x <= p + Len(src) THEN src[x - p]
            ELSE IF x <= Len(d) THEN d[x]
            ELSE 0]

\* The buffer after r elements of the file were read at position p into the
\* buffer cells at..at+r-1 (0-based `at`).
ReadInto(b, at, d, p, r) ==
    [x \in 1 .. Len(b) |-> IF x > at /\ x <= at + r THEN d[p + (x - at)] ELSE b[x]]

\* ------------------------------------------------------------- I/O drivers
\* What the environment lets a system call do: carry it out, or fail it.
Env == {"ok", "fail"}

OpenResult(ok, f, e) == [ok |-> ok, file |-> f, errno |-> e]

\* an open that ignores should_trunc
file_handle_open_fd_no_trunc(f, read_only, should_create, should_trunc, env, olderrno) ==
    IF env = "fail" THEN OpenResult(FALSE, f, EIO)
    ELSE IF ~f.exists /\ ~should_create THEN OpenResult(FALSE, f, ENOENT)
    ELSE IF ~f.exists THEN OpenResult(TRUE, FileOf(<<>>), olderrno)
    ELSE OpenResult(TRUE, f, olderrno)

\* file_handle_open_fd: open(path, O_RDONLY or O_RDWR [| O_CREAT] [| O_TRUNC]).
\* f is the file at path, olderrno the value of errno before the call.
file_handle_open_fd(f, read_only, should_create, should_trunc, env, olderrno) ==
    IF env = "fail" THEN OpenResult(FALSE, f, EIO)
    ELSE IF ~f.exists /\ ~should_create THEN OpenResult(FALSE, f, ENOENT)
    ELSE IF ~f.exists \/ should_trunc THEN OpenResult(TRUE, FileOf(<<>>), olderrno)
    ELSE OpenResult(TRUE, f, olderrno)

\* file_handle_open_stream: stat + EEXIST when should_create, then fopen "rb"
\* or fopen "wb+" (which creates the file or truncates it to length zero).
\* The stat of a path that does not exist leaves ENOENT in errno.
file_handle_open_stream(f, read_only, should_create, should_trunc, env, olderrno) ==
    IF should_create /\ f.exists THEN OpenResult(FALSE, f, EEXIST)
    ELSE IF env = "fail" THEN OpenResult(FALSE, f, EIO)
    ELSE LET ro == IF should_create THEN FALSE ELSE read_only
             e == IF should_create THEN ENOENT ELSE olderrno
         IN IF ro
            THEN IF f.exists THEN OpenResult(TRUE, f, e)
                             ELSE OpenResult(FALSE, f, ENOENT)
            ELSE OpenResult(TRUE, FileOf(<<>>), e)

\* io_driver->open
DriverOpen(drv, f, read_only, should_create, should_trunc, env, olderrno) ==
    IF drv = "fd"
    THEN file_handle_open_fd(f, read_only, should_create, should_trunc, env, olderrno)
    ELSE file_handle_open_stream(f, read_only, should_create, should_trunc, env, olderrno)

\* file_handle_read_fd: the element counts read(2) may return for a request of
\* m elements at position p of data d; -1 is a reported failure, 0 end of file.
\* `short` tells whether the environment may still deliver a short transfer.
file_handle_read_fd(d, p, m, short) ==
    LET full == Min(m, Max(0, Len(d) - p))
    IN {-1, full} \cup (IF short THEN 1 .. (full - 1) ELSE {})

\* file_handle_read_stream: fread(buffer, len, 1, stream) delivers the whole
\* request (result m), or 0 at end of file, or -1.
file_handle_read_stream(d, p, m, short) ==
    IF Len(d) - p >= m THEN {-1, m} ELSE {-1, 0}

\* file_handle_write_fd: -1 failure, 0 nothing written, m all, else short.
file_handle_write_fd(m, short) ==
    {-1, 0, m} \cup (IF short THEN 1 .. (m - 1) ELSE {})

\* file_handle_write_stream: fwrite(buffer, len, 1, stream) is all (m) or -1;
\* feof is never set on a stream that is only written.
file_handle_write_stream(m, short) == {-1, m}

DriverRead(drv, d, p, m, short) ==
    IF drv = "fd" THEN file_handle_read_fd(d, p, m, short)
                  ELSE file_handle_read_stream(d, p, m, short)

DriverWrite(drv, m, short) ==
    IF drv = "fd" THEN file_handle_write_fd(m, short)
                  ELSE file_handle_write_stream(m, short)

\* file_handle_close_fd: close(fd) and fd = -1, guarded by fd >= 0.  The result
\* is the handle after the call and the library call it issued.
file_handle_close_fd(h) ==
    IF h.open THEN [h |-> [open |-> FALSE, pos |-> 0], call |-> "close"]
    ELSE [h |-> h, call |-> "none"]

\* file_handle_close_stream: fclose(stream) and stream = NULL, guarded by
\* `stream >= 0`, which holds of every pointer, the null pointer included.
file_handle_close_stream(h) ==
    [h |-> [open |-> FALSE, pos |-> 0],
     call |-> IF h.open THEN "fclose" ELSE "fclose_null"]

DriverClose(drv, h) ==
    IF drv = "fd" THEN file_handle_close_fd(h) ELSE file_handle_close_stream(h)

\* The conditions under which main exits after a seek, a read and a write.
SeekFatal(result) == result < 0
ReadFatal(n_bytes) == n_bytes <= 0
\* a check of the write result that lets a negative result pass
WriteFatal_zero_only(n_bytes) == n_bytes = 0
WriteFatal(n_bytes) == n_bytes <= 0

\* errno after a read, write or seek returned r
ErrnoAfter(r, olderrno) == IF r < 0 THEN EIO ELSE olderrno

\* ------------------------------------------------------------ loop nests
Dim(n, a) == IF a = "i" THEN n[1] ELSE IF a = "j" THEN n[2] ELSE n[3]

Origin == [i |-> 0, j |-> 0, k |-> 0]
\* the loop counters once the outermost loop has ended
LoopEnd == [i |-> -1, j |-> -1, k |-> -1]

\* The counters after one more pass of the `for` loops nested in `order`
\* (outermost first), d being the depth of the loop whose counter is incremented.
RECURSIVE IncAt(_, _, _, _)
IncAt(order, c, n, d) ==
    IF d = 0 THEN LoopEnd
    ELSE LET a == order[d]
         IN IF c[a] + 1 < Dim(n, a) THEN [c EXCEPT ![a] = @ + 1]
            ELSE IncAt(order, [c EXCEPT ![a] = 0], n, d - 1)

Inc(order, c, n) == IncAt(order, c, n, Len(order))

IsMap(alg) == alg \in {"ijk_map", "jki_map", "jik_map"}

\* ------------------------------------------------------------ initializer
\* The `for` loops around each write of the initializer.
InitLoops(alg) ==
    CASE alg = "ijk_map" -> <<"i", "j", "k">>
      [] alg = "jki_map" -> <<"j", "k", "i">>
      [] alg = "jik_map" -> <<"i", "j", "k">>
      [] alg = "vector_input" -> <<"j", "k">>
      [] alg = "vector_output" -> <<"j", "i">>
      [] alg = "matrix" -> <<"j">>

\* The values one write of the initializer hands to the driver (the unsigned
\* long offsets are stored as doubles, which is exact below 2^53).
InitBlock(alg, n, c) ==
    CASE alg = "ijk_map" -> <<offset_ijk(n, c.i, c.j, c.k)>>
      [] alg = "jki_map" -> <<offset_jki(n, c.i, c.j, c.k)>>
      [] alg = "jik_map" -> <<offset_jik(n, c.i, c.j, c.k)>>
      [] alg = "vector_input" -> [x \in 1 .. n[1] |-> offset_jki(n, x - 1, c.j, c.k)]
      [] alg = "vector_output" -> [x \in 1 .. n[3] |-> offset_jki(n, c.i, c.j, x - 1)]
      [] alg = "matrix" ->
            [x \in 1 .. n[1] * n[3] |->
                offset_jki(n, (x - 1) % n[1], c.j, (x - 1) \div n[1])]

\* Whether the initializer looks at the result of its write.
InitWriteChecked(alg) == IsMap(alg)

\* Elements of the scratch buffer v (v1 and v2 for matrix) of each phase.
BufferLen(alg, n) ==
    CASE alg = "vector_input" -> n[1]
      [] alg = "vector_output" -> n[3]
      [] alg = "matrix" -> n[1] * n[3]
      [] OTHER -> 1

\* ------------------------------------------------------------------ state
VARIABLES
    cfg,        \* the options of the command line
    pc,         \* where main is
    idx,        \* the loop counters i, j, k
    files,      \* the input and the output file
    fh,         \* in_fh and out_fh: open or not, and the file position
    buf,        \* the scratch buffers v (v1) and v2
    errno,
    status,     \* exit status, Running until the process ends
    anomalies,  \* anomalous I/O results the run went on after
    obs         \* history of the run, read by the properties only

vars == <<cfg, pc, idx, files, fh, buf, errno, status, anomalies, obs>>

\* ------------------------------------------------------------------ Init
Dims == {n \in [1 .. 3 -> 1 .. MaxDim] : Cells(n) <= MaxCells}

\* Contents of a pre-existing input file: all elements distinct, or repeated,
\* or the element at position p holding p (what an earlier run with
\* --init-input and jki_map has left).
InputData(c, len) ==
    CASE c = "distinct" -> [x \in 1 .. len |-> 100 + x]
      [] c = "repeated" -> [x \in 1 .. len |-> x % 2]
      [] c = "selfdesc" -> [x \in 1 .. len |-> x - 1]

FileLengths(n) == {Cells(n) - 1} \cup (Cells(n) .. Cells(n) + MaxExtra)

InputFiles(n) ==
    {Absent} \cup {FileOf(InputData(c, len)) : c \in {"distinct", "repeated", "selfdesc"}, len \in FileLengths(n)}

OutputFiles(n) ==
    {Absent} \cup {FileOf([x \in 1 .. len |-> 900 + x]) : len \in FileLengths(n)}

Config(n, a, d, x, ini, inp, outp) ==
    [n |-> n, algorithm |-> a, io_driver |-> d, exact |-> x, init |-> ini,
     input_file |-> inp, output_file |-> outp]

\* Command lines that pass the validation of the options.
ValidConfigs ==
    {Config(n, a, d, x, ini, TRUE, outp) :
        n \in Dims, a \in Range(algorithm_names), d \in Range(io_driver_names),
        x \in BOOLEAN, ini \in BOOLEAN, outp \in BOOLEAN}

\* Command lines with one configuration error.
BadConfigs ==
    {Config(n, "jki_map", "fd", FALSE, ini, TRUE, TRUE) :
        n \in {<<0, 1, 2>>, <<2, 0, 1>>, <<1, 2, 0>>}, ini \in BOOLEAN}
    \cup {Config(<<2, 1, 2>>, a, d, FALSE, ini, inp, TRUE) :
            a \in {"jki_map", "bogus"}, d \in {"fd", "bogus"}, ini \in BOOLEAN,
            inp \in BOOLEAN}

Closed == [open |-> FALSE, pos |-> 0]

Init ==
    /\ cfg \in ValidConfigs \cup BadConfigs
    /\ pc = "start"
    /\ idx = Origin
    /\ \E fin \in InputFiles(cfg.n), fout \in OutputFiles(cfg.n) :
            /\ files = [in |-> fin, out |-> fout]
            /\ obs = [in0 |-> <<>>, out0 |-> fout,
                      rd |-> [x \in 1 .. Cells(cfg.n) |-> 0],
                      wr |-> [x \in 1 .. Cells(cfg.n) |-> 0],
                      rdOut |-> 0, wrOut |-> 0,
                      nio |-> 0, failed |-> FALSE, shortRead |-> FALSE,
                      initWriteFailed |-> FALSE, clean |-> TRUE, phase |-> "config",
                      ncall |-> [seekIn |-> 0, read |-> 0, seekOut |-> 0, write |-> 0],
                      sizes |-> [read |-> {}, write |-> {}],
                      pend |-> [in |-> 0, out |-> 0], seekOk |-> TRUE,
                      initFull |-> TRUE]
    /\ fh = [in |-> Closed, out |-> Closed]
    /\ buf = [v |-> <<>>, v2 |-> <<>>]
    /\ errno = 0
    /\ status = Running
    /\ anomalies = 0

\* exit(code)
Exit(code) == pc' = "exited" /\ status' = code

\* ------------------------------------------------------ option validation
ValidateConfig ==
    /\ pc = "start"
    /\ IF \/ string_to_algorithm(cfg.algorithm) = "invalid"
          \/ string_to_io_driver(cfg.io_driver) = "invalid"
          \/ \E x \in 1 .. 3 : cfg.n[x] = 0
          \/ ~cfg.input_file
       THEN Exit(EINVAL)
       ELSE /\ pc' = IF cfg.init THEN "init_open" ELSE "check_output"
            /\ status' = status
    /\ UNCHANGED <<cfg, idx, files, fh, buf, errno, anomalies, obs>>

\* ------------------------------------------------------------ initializer
\* main, lines 562-571: create the input file, or truncate the existing one.
InitOpen ==
    /\ pc = "init_open"
    /\ \E e1 \in Env, e2 \in Env :
        LET r1 == DriverOpen(cfg.io_driver, files.in, FALSE, TRUE, TRUE, e1, errno)
            r2 == DriverOpen(cfg.io_driver, r1.file, FALSE, FALSE, TRUE, e2, r1.errno)
            r == IF r1.ok \/ r1.errno # EEXIST THEN r1 ELSE r2
        IN /\ files' = [files EXCEPT !.in = r.file]
           /\ errno' = r.errno
           /\ IF r.ok
              THEN /\ pc' = IF IsMap(cfg.algorithm) THEN "init_write" ELSE "init_alloc"
                   /\ status' = status
                   /\ fh' = [fh EXCEPT !.in = [open |-> TRUE, pos |-> 0]]
              ELSE /\ Exit(r.errno)
                   /\ fh' = fh
           /\ obs' = [obs EXCEPT !.phase = "init", !.clean = @ /\ r.ok]
    /\ UNCHANGED <<cfg, idx, buf, anomalies>>

\* malloc of the init vector or matrix (vector_input, vector_output, matrix)
InitAlloc ==
    /\ pc = "init_alloc"
    /\ \E ok \in BOOLEAN :
        IF ok
        THEN /\ buf' = [buf EXCEPT !.v = [x \in 1 .. BufferLen(cfg.algorithm, cfg.n) |-> Uninit]]
             /\ pc' = "init_write"
             /\ status' = status
             /\ obs' = obs
        ELSE /\ Exit(ENOMEM)
             /\ buf' = buf
             /\ obs' = [obs EXCEPT !.clean = FALSE]
    /\ UNCHANGED <<cfg, idx, files, fh, errno, anomalies>>

\* One io_driver->write of the initializer with the loop step around it.
InitWrite ==
    /\ pc = "init_write"
    /\ LET alg == cfg.algorithm
           src == InitBlock(alg, cfg.n, idx)
           m == Len(src)
           p == fh.in.pos \div SizeofDouble
       IN \E r \in DriverWrite(cfg.io_driver, m, anomalies < MaxAnomalies) :
            LET n_bytes == IF r < 0 THEN -1 ELSE SizeofDouble * r
                fatal == InitWriteChecked(alg) /\ WriteFatal(n_bytes)
                anomalous == r # m /\ ~fatal
                e == ErrnoAfter(r, errno)
                next == Inc(InitLoops(alg), idx, cfg.n)
            IN /\ anomalous => anomalies < MaxAnomalies
               /\ anomalies' = anomalies + (IF anomalous THEN 1 ELSE 0)
               /\ files' = [files EXCEPT !.in.data =
                                IF r > 0 THEN WriteAt(@, p, SubSeq(src, 1, r)) ELSE @]
               /\ fh' = [fh EXCEPT !.in.pos = IF r > 0 THEN @ + SizeofDouble * r ELSE @]
               /\ errno' = e
               /\ buf' = IF IsMap(alg) THEN buf ELSE [buf EXCEPT !.v = src]
               /\ IF fatal
                  THEN /\ Exit(e)
                       /\ idx' = idx
                  ELSE /\ idx' = next
                       /\ pc' = IF next = LoopEnd THEN "init_close" ELSE "init_write"
                       /\ status' = status
               /\ obs' = [obs EXCEPT !.initWriteFailed = @ \/ r <= 0,
                                     !.clean = @ /\ r = m,
                                     !.initFull = @ /\ r = m]
    /\ UNCHANGED <<cfg>>

\* main, lines 705-710: close the input file; exit(0) without an output file.
InitClose ==
    /\ pc = "init_close"
    /\ fh' = [fh EXCEPT !.in = DriverClose(cfg.io_driver, @).h]
    /\ buf' = [v |-> <<>>, v2 |-> <<>>]
    /\ idx' = Origin
    /\ IF ~cfg.output_file
       THEN Exit(0)
       ELSE /\ pc' = "check_output"
            /\ status' = status
    /\ obs' = [obs EXCEPT !.phase = "initialized"]
    /\ UNCHANGED <<cfg, files, errno, anomalies>>

\* ------------------------------------------------------------- validation
\* main, lines 716-719
CheckOutput ==
    /\ pc = "check_output"
    /\ IF ~cfg.output_file
       THEN Exit(EINVAL)
       ELSE /\ pc' = "open_input"
            /\ status' = status
    /\ UNCHANGED <<cfg, idx, files, fh, buf, errno, anomalies, obs>>

\* main, lines 724-728: open the input file read-only.
OpenInput ==
    /\ pc = "open_input"
    /\ \E e \in Env :
        LET r == DriverOpen(cfg.io_driver, files.in, TRUE, FALSE, FALSE, e, errno)
        IN /\ files' = [files EXCEPT !.in = r.file]
           /\ errno' = r.errno
           /\ IF r.ok
              THEN /\ pc' = "stat_input"
                   /\ status' = status
                   /\ fh' = [fh EXCEPT !.in = [open |-> TRUE, pos |-> 0]]
                   /\ obs' = [obs EXCEPT !.in0 = r.file.data, !.phase = "validate"]
              ELSE /\ Exit(r.errno)
                   /\ fh' = fh
                   /\ obs' = [obs EXCEPT !.clean = @ /\ e = "ok"]
    /\ UNCHANGED <<cfg, idx, buf, anomalies>>

\* the size rule without its exact-dimensions branch
SizeCheck_no_exact(st_size, l, should_use_exact_dims) ==
    IF st_size < l THEN EINVAL ELSE 0

\* The size rule of lines 739-746 and 774-781: the exit code, or 0 to go on.
SizeCheck(st_size, l, should_use_exact_dims) ==
    IF st_size < l THEN EINVAL
    ELSE IF st_size > l /\ should_use_exact_dims THEN EINVAL
    ELSE 0

\* main, lines 733-749: fstat the input file and check its size.
StatInput ==
    /\ pc = "stat_input"
    /\ \E e \in Env :
        LET code == IF e = "fail" THEN EIO
                    ELSE SizeCheck(StSize(files.in), ExpectedLength(cfg.n), cfg.exact)
        IN /\ errno' = IF e = "fail" THEN EIO ELSE errno
           /\ IF code # 0
              THEN Exit(code)
              ELSE /\ pc' = "open_output"
                   /\ status' = status
           /\ obs' = [obs EXCEPT !.clean = @ /\ e = "ok"]
    /\ UNCHANGED <<cfg, idx, files, fh, buf, anomalies>>

\* main, lines 754-787: create the output file; when the driver reports
\* EEXIST, open the existing file and check its size.
OpenOutput ==
    /\ pc = "open_output"
    /\ \E e1 \in Env, e2 \in Env, e3 \in Env :
        LET r1 == DriverOpen(cfg.io_driver, files.out, FALSE, TRUE, FALSE, e1, errno)
            r2 == DriverOpen(cfg.io_driver, r1.file, FALSE, FALSE, FALSE, e2, r1.errno)
            retry == ~r1.ok /\ r1.errno = EEXIST
            r == IF retry THEN r2 ELSE r1
            statfail == retry /\ r2.ok /\ e3 = "fail"
            code == IF ~r.ok THEN r.errno
                    ELSE IF statfail THEN EIO
                    ELSE IF retry
                    THEN SizeCheck(StSize(r.file), ExpectedLength(cfg.n), cfg.exact)
                    ELSE 0
        IN /\ files' = [files EXCEPT !.out = r.file]
           /\ errno' = IF statfail THEN EIO ELSE r.errno
           /\ fh' = IF r.ok THEN [fh EXCEPT !.out = [open |-> TRUE, pos |-> 0]] ELSE fh
           /\ IF code # 0
              THEN /\ Exit(code)
                   /\ buf' = buf
              ELSE /\ pc' = IF IsMap(cfg.algorithm) THEN "seek_in" ELSE "conv_alloc"
                   /\ status' = status
                   /\ buf' = IF IsMap(cfg.algorithm)
                             THEN [v |-> <<Uninit>>, v2 |-> <<>>] ELSE buf
           /\ obs' = [obs EXCEPT !.phase = IF code = 0 THEN "convert" ELSE @,
                                 !.clean = @ /\ r.ok /\ ~statfail]
    /\ UNCHANGED <<cfg, idx, anomalies>>

\* ------------------------------------------------------------- conversion
\* The `for` loops of each conversion algorithm, outermost first.
ConvLoops(alg) ==
    CASE alg = "ijk_map" -> <<"i", "j", "k">>
      [] alg = "jki_map" -> <<"j", "k", "i">>
      [] alg = "jik_map" -> <<"j", "i", "k">>
      [] alg = "vector_input" -> <<"j", "k", "i">>
      [] alg = "vector_output" -> <<"j", "i", "k">>
      [] alg = "matrix" -> <<"j">>

\* the input seek computed with the layout of the output
SeekInOffset_jik(alg, n, c) ==
    SizeofDouble * offset_jik(n, c.i, c.j, c.k)

\* fp of the seek on the input file
SeekInOffset(alg, n, c) ==
    SizeofDouble *
        (CASE alg = "vector_input" -> offset_jki(n, 0, c.j, c.k)
           [] alg = "matrix" -> offset_jki(n, 0, c.j, 0)
           [] OTHER -> offset_jki(n, c.i, c.j, c.k))

\* fp of the seek on the output file
SeekOutOffset(alg, n, c) ==
    SizeofDouble *
        (CASE alg = "vector_output" -> offset_jik(n, c.i, c.j, 0)
           [] alg = "matrix" -> offset_jik(n, 0, c.j, 0)
           [] OTHER -> offset_jik(n, c.i, c.j, c.k))

\* a read of one element whatever the algorithm
ReadLen_single(alg, n) == 1

\* Elements requested by one read, and the buffer cell the read starts at.
ReadLen(alg, n) ==
    CASE alg = "vector_input" -> n[1]
      [] alg = "matrix" -> n[1] * n[3]
      [] OTHER -> 1

ReadAt(alg, c) == IF alg = "vector_output" THEN c.k ELSE 0

\* v2[i * n[2] + k] = v1[k * n[0] + i]
Transpose(n, v1) ==
    [x \in 1 .. n[1] * n[3] |->
        LET i == (x - 1) \div n[3]
            k == (x - 1) % n[3]
        IN v1[k * n[1] + i + 1]]

\* The elements one write hands to the driver.
WriteSource(alg, b, c) ==
    CASE alg = "vector_input" -> <<b.v[c.i + 1]>>
      [] alg = "matrix" -> b.v2
      [] OTHER -> b.v

\* A buffer as it is stored: a cell nothing has filled holds the value g.
Stored(src, g) == [x \in 1 .. Len(src) |-> IF src[x] = Uninit THEN g ELSE src[x]]

\* The coverage counts after elements p .. p+r-1 were transferred.
Covered(count, p, r) ==
    [x \in 1 .. Len(count) |-> IF x > p /\ x <= p + r THEN count[x] + 1 ELSE count[x]]

Outside(count, p, r) == Cardinality({x \in (p + 1) .. (p + r) : x > Len(count)})

\* malloc of the vector or of the two matrices
ConvAlloc ==
    /\ pc = "conv_alloc"
    /\ \E ok \in BOOLEAN :
        IF ok
        THEN /\ buf' = [v |-> [x \in 1 .. BufferLen(cfg.algorithm, cfg.n) |-> Uninit],
                        v2 |-> IF cfg.algorithm = "matrix"
                               THEN [x \in 1 .. BufferLen(cfg.algorithm, cfg.n) |-> Uninit]
                               ELSE <<>>]
             /\ pc' = "seek_in"
             /\ status' = status
             /\ obs' = obs
        ELSE /\ Exit(ENOMEM)
             /\ buf' = buf
             /\ obs' = [obs EXCEPT !.clean = FALSE]
    /\ UNCHANGED <<cfg, idx, files, fh, errno, anomalies>>

\* io_driver->seek(&in_fh, fp)
ConvSeekIn ==
    /\ pc = "seek_in"
    /\ \E e \in Env :
        LET fp == SeekInOffset(cfg.algorithm, cfg.n, idx)
            result == IF e = "fail" THEN -1 ELSE fp
        IN /\ obs' = [obs EXCEPT !.nio = @ + 1, !.failed = (result < 0),
                                 !.clean = @ /\ result >= 0,
                                 !.ncall.seekIn = @ + 1, !.pend.in = @ + 1]
           /\ errno' = ErrnoAfter(result, errno)
           /\ IF SeekFatal(result)
              THEN /\ Exit(ErrnoAfter(result, errno))
                   /\ fh' = fh
              ELSE /\ fh' = [fh EXCEPT !.in.pos = IF result >= 0 THEN result ELSE @]
                   /\ pc' = "read"
                   /\ status' = status
    /\ UNCHANGED <<cfg, idx, files, buf, anomalies>>

\* io_driver->read(&in_fh, ...) with the check of n_bytes (and, for matrix,
\* the transposition of v1 into v2 that follows it).
ConvRead ==
    /\ pc = "read"
    /\ LET alg == cfg.algorithm
           m == ReadLen(alg, cfg.n)
           p == fh.in.pos \div SizeofDouble
       IN \E r \in DriverRead(cfg.io_driver, files.in.data, p, m, anomalies < MaxAnomalies) :
            LET n_bytes == IF r < 0 THEN -1 ELSE SizeofDouble * r
                e == ErrnoAfter(r, errno)
                got == IF r > 0 THEN r ELSE 0
                v1 == ReadInto(buf.v, ReadAt(alg, idx), files.in.data, p, got)
            IN /\ anomalies' = anomalies + (IF r > 0 /\ r < m THEN 1 ELSE 0)
               /\ obs' = [obs EXCEPT !.nio = @ + 1, !.failed = (r < 0),
                                     !.shortRead = @ \/ (r >= 0 /\ r < m),
                                     !.clean = @ /\ r = m,
                                     !.rd = Covered(@, p, got),
                                     !.rdOut = @ + Outside(obs.rd, p, got),
                                     !.ncall.read = @ + 1,
                                     !.sizes.read = @ \cup {m},
                                     !.seekOk = @ /\ obs.pend.in = 1
                                                  /\ fh.in.pos = SeekInOffset(alg, cfg.n, idx),
                                     !.pend.in = 0]
               /\ errno' = e
               /\ fh' = [fh EXCEPT !.in.pos = @ + SizeofDouble * got]
               /\ IF ReadFatal(n_bytes)
                  THEN /\ Exit(IF n_bytes = 0 THEN EINVAL ELSE e)
                       /\ buf' = buf
                       /\ idx' = idx
                  ELSE /\ buf' = [v |-> v1,
                                  v2 |-> IF alg = "matrix" THEN Transpose(cfg.n, v1) ELSE buf.v2]
                       /\ status' = status
                       /\ IF alg = "vector_output" /\ idx.k + 1 < cfg.n[3]
                          THEN /\ idx' = [idx EXCEPT !.k = @ + 1]
                               /\ pc' = "seek_in"
                          ELSE /\ idx' = idx
                               /\ pc' = "seek_out"
    /\ UNCHANGED <<cfg, files>>

\* io_driver->seek(&out_fh, fp)
ConvSeekOut ==
    /\ pc = "seek_out"
    /\ \E e \in Env :
        LET fp == SeekOutOffset(cfg.algorithm, cfg.n, idx)
            result == IF e = "fail" THEN -1 ELSE fp
        IN /\ obs' = [obs EXCEPT !.nio = @ + 1, !.failed = (result < 0),
                                 !.clean = @ /\ result >= 0,
                                 !.ncall.seekOut = @ + 1, !.pend.out = @ + 1]
           /\ errno' = ErrnoAfter(result, errno)
           /\ IF SeekFatal(result)
              THEN /\ Exit(ErrnoAfter(result, errno))
                   /\ fh' = fh
              ELSE /\ fh' = [fh EXCEPT !.out.pos = IF result >= 0 THEN result ELSE @]
                   /\ pc' = "write"
                   /\ status' = status
    /\ UNCHANGED <<cfg, idx, files, buf, anomalies>>

\* io_driver->write(&out_fh, ...) with the check of n_bytes and the loop step.
ConvWrite ==
    /\ pc = "write"
    /\ LET alg == cfg.algorithm
           src == WriteSource(alg, buf, idx)
           m == Len(src)
           p == fh.out.pos \div SizeofDouble
       IN \E r \in DriverWrite(cfg.io_driver, m, anomalies < MaxAnomalies), g \in Indeterminate :
            LET n_bytes == IF r < 0 THEN -1 ELSE SizeofDouble * r
                e == ErrnoAfter(r, errno)
                got == IF r > 0 THEN r ELSE 0
                next == Inc(ConvLoops(alg), idx, cfg.n)
            IN /\ anomalies' = anomalies + (IF r > 0 /\ r < m THEN 1 ELSE 0)
               /\ obs' = [obs EXCEPT !.nio = @ + 1, !.failed = (r < 0),
                                     !.clean = @ /\ r = m,
                                     !.wr = Covered(@, p, got),
                                     !.wrOut = @ + Outside(obs.wr, p, got),
                                     !.ncall.write = @ + 1,
                                     !.sizes.write = @ \cup {m},
                                     !.seekOk = @ /\ obs.pend.out = 1
                                                  /\ fh.out.pos = SeekOutOffset(alg, cfg.n, idx),
                                     !.pend.out = 0]
               /\ errno' = e
               /\ files' = [files EXCEPT !.out.data =
                                IF got > 0 THEN WriteAt(@, p, SubSeq(Stored(src, g), 1, got))
                                ELSE @]
               /\ fh' = [fh EXCEPT !.out.pos = @ + SizeofDouble * got]
               /\ IF WriteFatal(n_bytes)
                  THEN /\ Exit(e)
                       /\ idx' = idx
                  ELSE /\ idx' = next
                       /\ status' = status
                       /\ pc' = IF next = LoopEnd THEN "close"
                                ELSE IF alg = "vector_input" /\ next.i # 0 THEN "seek_out"
                                ELSE "seek_in"
    /\ UNCHANGED <<cfg, buf>>

\* main, lines 1060-1067: close both files and return rc.
CloseFiles ==
    /\ pc = "close"
    /\ fh' = [in |-> DriverClose(cfg.io_driver, fh.in).h,
              out |-> DriverClose(cfg.io_driver, fh.out).h]
    /\ Exit(0)
    /\ obs' = [obs EXCEPT !.phase = "done"]
    /\ UNCHANGED <<cfg, idx, files, buf, errno, anomalies>>

Next ==
    \/ ValidateConfig
    \/ InitOpen
    \/ InitAlloc
    \/ InitWrite
    \/ InitClose
    \/ CheckOutput
    \/ OpenInput
    \/ StatInput
    \/ OpenOutput
    \/ ConvAlloc
    \/ ConvSeekIn
    \/ ConvRead
    \/ ConvSeekOut
    \/ ConvWrite
    \/ CloseFiles

Spec == Init /\ [][Next]_vars

\* ------------------------------------------------------------- properties
\* The conversion ran to its end: main closed both files and returned.
Completed == pc = "exited" /\ obs.phase = "done"

Positive(n) == \A x \in 1 .. 3 : n[x] > 0

\* F maps the index cube of n one-to-one onto 0 .. n0*n1*n2 - 1.
Enumerates(F(_, _, _, _), n) ==
    /\ {F(n, c[1], c[2], c[3]) : c \in Cube(n)} = 0 .. (Cells(n) - 1)
    /\ \A c \in Cube(n), d \in Cube(n) :
            F(n, c[1], c[2], c[3]) = F(n, d[1], d[2], d[3]) => c = d

\* The output holds at offset_jik(i,j,k) what the input held at offset_jki(i,j,k).
Transformed(n, ind, outd) ==
    /\ Len(outd) >= Cells(n)
    /\ \A c \in Cube(n) :
            outd[offset_jik(n, c[1], c[2], c[3]) + 1] = ind[offset_jki(n, c[1], c[2], c[3]) + 1]

\* C1: whenever one of the six conversion algorithms completes without a
\* reported I/O failure, the output file holds at offset_JIK(i,j,k) the value
\* the input file held at offset_JKI(i,j,k), for every (i,j,k) of the cube.
ConversionTransforms == Completed => Transformed(cfg.n, obs.in0, files.out.data)

\* The same result for the runs in which every transfer was complete.
ConversionTransformsFullTransfers ==
    (Completed /\ anomalies = 0) => Transformed(cfg.n, obs.in0, files.out.data)

\* C2: for positive dimensions each of offset_ijk, offset_jki and offset_jik,
\* taken over the whole cube, yields every integer of [0, n0*n1*n2) exactly once
\* (stated of the dimensions of every run, at its start and once the
\* conversion has applied the offsets to the whole cube).
OffsetsEnumerateRange ==
    (Positive(cfg.n) /\ (pc = "start" \/ Completed)) =>
        /\ Enumerates(offset_ijk, cfg.n)
        /\ Enumerates(offset_jki, cfg.n)
        /\ Enumerates(offset_jik, cfg.n)

\* A run over a cube with three different extents has applied the offsets.
OffsetsEnumerateRangeWitness ==
    Completed /\ cfg.n = <<2, 1, 3>> /\ cfg.algorithm = "jik_map"

\* C3: in a conversion that completes, every output element position of
\* [0, n0*n1*n2) is covered by exactly one write and every input position by
\* exactly one read, and no transfer touches a position outside that range.
EveryElementOnce ==
    Completed =>
        /\ \A x \in 1 .. Cells(cfg.n) : obs.rd[x] = 1 /\ obs.wr[x] = 1
        /\ obs.rdOut = 0
        /\ obs.wrOut = 0

\* The same for the runs in which every transfer was complete.
EveryElementOnceFullTransfers ==
    (Completed /\ anomalies = 0) =>
        /\ \A x \in 1 .. Cells(cfg.n) : obs.rd[x] = 1 /\ obs.wr[x] = 1
        /\ obs.rdOut = 0
        /\ obs.wrOut = 0

\* The data a complete conversion of `ind` leaves in an output file that held
\* `outd` when it was opened without truncation.
Converted(n, ind, outd) ==
    [x \in 1 .. Max(Len(outd), Cells(n)) |->
        IF x <= Cells(n)
        THEN LET c == CHOOSE c \in Cube(n) : offset_jik(n, c[1], c[2], c[3]) = x - 1
             IN ind[offset_jki(n, c[1], c[2], c[3]) + 1]
        ELSE outd[x]]

ConfigError(c) ==
    \/ string_to_algorithm(c.algorithm) = "invalid"
    \/ string_to_io_driver(c.io_driver) = "invalid"
    \/ ~Positive(c.n)
    \/ ~c.input_file

\* The exit status of a run of the fd driver in which the environment carries
\* out every call, fin being the input file once the initializer (if any) ran.
FdStatus(c, fin) ==
    IF ConfigError(c) THEN EINVAL
    ELSE IF ~c.output_file THEN (IF c.init THEN 0 ELSE EINVAL)
    ELSE IF ~fin.exists THEN ENOENT
    ELSE SizeCheck(StSize(fin), ExpectedLength(c.n), c.exact)

\* The output file such a run of the fd driver leaves, fout being the output
\* file at the start.
FdOutput(c, fin, fout) ==
    IF FdStatus(c, fin) = 0 /\ c.output_file
    THEN FileOf(Converted(c.n, fin.data, fout.data))
    ELSE fout

\* FdStatus and FdOutput are the outcome of the fd driver.
FdOutcome ==
    (pc = "exited" /\ obs.clean /\ cfg.io_driver = "fd") =>
        /\ status = FdStatus(cfg, files.in)
        /\ files.out = FdOutput(cfg, files.in, obs.out0)

\* C4: from the same dimensions, algorithm, flags, input and initial output
\* file, a run ends with the same exit status and the same output file
\* whichever driver it uses: every run ends as the run of the fd driver does.
BackendsAgree ==
    (pc = "exited" /\ obs.clean) =>
        /\ status = FdStatus(cfg, files.in)
        /\ files.out = FdOutput(cfg, files.in, obs.out0)

\* C5: an output file that exists already is opened without any change of its
\* length or content and its size is checked by the rule of the input before
\* any seek, read or write of the conversion; an absent output file is created
\* empty and no size check is applied to it.
OutputOpenedUntouchedAndChecked ==
    /\ (obs.out0.exists /\ obs.nio = 0) => files.out = obs.out0
    /\ (obs.out0.exists /\ obs.nio > 0) =>
            SizeCheck(StSize(obs.out0), ExpectedLength(cfg.n), cfg.exact) = 0
    /\ (~obs.out0.exists /\ fh.out.open /\ obs.nio = 0) =>
            /\ files.out = FileOf(<<>>)
            /\ ~(pc = "exited" /\ status = EINVAL)

\* The input file was opened for the conversion and its size has been looked at.
InputSizeDecided == obs.phase \in {"validate", "convert", "done"} /\ pc # "stat_input"

\* main exited at the size check of the input file.
InputRejected ==
    pc = "exited" /\ status = EINVAL /\ obs.phase = "validate" /\ ~fh.out.open

\* C6: with L = 8*n0*n1*n2, an input file of size s < L, or of size s > L in
\* exact-dimensions mode, is rejected with the invalid-argument exit before
\* any seek, read or write of the conversion and before the output file is
\* created or opened; an input of size L, or larger in lenient mode, is accepted.
InputSizeValidation ==
    InputSizeDecided =>
        LET s == StSize(files.in)
            l == ExpectedLength(cfg.n)
        IN IF s < l \/ (s > l /\ cfg.exact)
           THEN /\ pc = "exited"
                /\ obs.clean => InputRejected
                /\ ~fh.out.open
                /\ files.out = obs.out0
                /\ obs.nio = 0
           ELSE ~InputRejected

\* An input file one element too long was rejected in exact-dimensions mode.
InputSizeValidationWitness ==
    /\ InputRejected
    /\ cfg.exact
    /\ StSize(files.in) = ExpectedLength(cfg.n) + SizeofDouble

\* C7: in the conversion the first seek, read or write that reports a failure
\* is the last I/O call of the run: the process is then exited with a non-zero
\* status, the failed call and everything after it leave both files as the
\* completed writes left them.
FirstFailureIsLast ==
    [][/\ obs'.failed => (pc' = "exited" /\ status' # 0 /\ files' = files)
       /\ obs.failed => (obs'.nio = obs.nio /\ files' = files)]_vars

\* A write failed after earlier elements had been written.
FirstFailureIsLastWitness ==
    /\ obs.failed
    /\ pc = "exited"
    /\ \E x \in 1 .. Cells(cfg.n) : obs.wr[x] = 1
    /\ \E x \in 1 .. Cells(cfg.n) : obs.rd[x] = 1 /\ obs.wr[x] = 0

\* C8: a read of the conversion that returns fewer bytes than requested
\* without reporting a failure is the fatal unexpected end of file: the run
\* exits and writes nothing from the partly filled buffer.
ShortReadIsFatal == obs.shortRead => (pc = "exited" /\ status = EINVAL)

\* C9: a write of the initializer that reports failure (result <= 0) is fatal
\* for each of the six algorithms: the run exits there with a non-zero status.
InitWriteFailureIsFatal == obs.initWriteFailed => (pc = "exited" /\ status # 0)

\* the file in which the element at position p holds the value p
SelfDescribing(n) == [x \in 1 .. Cells(n) |-> x - 1]

\* C10: the initializer run with jki_map stores the value p at element position
\* p; converting that file with ijk_map, jki_map or jik_map leaves
\* offset_JKI(i,j,k) at offset_JIK(i,j,k), which for dimensions (2,2,2) is the
\* element sequence 0,2,1,3,4,6,5,7.
SelfDescribingRoundTrip ==
    /\ (cfg.init /\ cfg.algorithm = "jki_map" /\ obs.phase \notin {"config", "init"}) =>
            files.in.data = SelfDescribing(cfg.n)
    /\ (Completed /\ IsMap(cfg.algorithm)
            /\ SubSeq(obs.in0, 1, Cells(cfg.n)) = SelfDescribing(cfg.n)) =>
            /\ Len(files.out.data) >= Cells(cfg.n)
            /\ \A c \in Cube(cfg.n) :
                    files.out.data[offset_jik(cfg.n, c[1], c[2], c[3]) + 1]
                        = offset_jki(cfg.n, c[1], c[2], c[3])
            /\ cfg.n = <<2, 2, 2>> =>
                    SubSeq(files.out.data, 1, 8) = <<0, 2, 1, 3, 4, 6, 5, 7>>

\* The 2x2x2 cube was initialized and converted with jki_map in one run.
SelfDescribingRoundTripWitness ==
    /\ Completed
    /\ cfg.init
    /\ cfg.algorithm = "jki_map"
    /\ cfg.n = <<2, 2, 2>>

\* The order in which a conversion algorithm goes through the cube: its `for`
\* loops, and for matrix the plane of j as the input file stores it (k, then i).
ConvVisitOrder(alg) == IF alg = "matrix" THEN <<"j", "k", "i">> ELSE ConvLoops(alg)

\* The q-th coordinate (q counted from 0) of the loop nest `order` over n.
CoordAt(order, n, q) ==
    LET d2 == Dim(n, order[2])
        d3 == Dim(n, order[3])
        c == [a \in {order[1], order[2], order[3]} |->
                IF a = order[3] THEN q % d3
                ELSE IF a = order[2] THEN (q \div d3) % d2
                ELSE q \div (d3 * d2)]
    IN [i |-> c["i"], j |-> c["j"], k |-> c["k"]]

\* The initializer is at work or has ended, and all its calls did their work.
InitializerClean == cfg.init /\ obs.phase \in {"init", "initialized"} /\ obs.clean

\* C11: the initializer of each algorithm visits the coordinates in the loop
\* order of the conversion of that algorithm (jik_map: j,i,k; vector_input: j,k
\* then i; vector_output: j,i then k; matrix: j then the block) and generates
\* for the coordinate (i,j,k) the value offset_JKI(i,j,k), except ijk_map which
\* generates offset_IJK(i,j,k): the q-th element the initializer has written is
\* that value of the q-th coordinate of that order.
InitializerFollowsConversion ==
    InitializerClean =>
        \A q \in 0 .. (Len(files.in.data) - 1) :
            LET c == CoordAt(ConvVisitOrder(cfg.algorithm), cfg.n, q)
            IN files.in.data[q + 1] =
                    IF cfg.algorithm = "ijk_map"
                    THEN offset_ijk(cfg.n, c.i, c.j, c.k)
                    ELSE offset_jki(cfg.n, c.i, c.j, c.k)

\* The same for the five algorithms other than jik_map.
InitializerFollowsConversionButJik ==
    cfg.algorithm # "jik_map" => InitializerFollowsConversion

\* The dimensions with n0 and n2 exchanged.
SwapDims(n) == <<n[3], n[2], n[1]>>

\* The conversion with source and destination layouts swapped: the result holds
\* at offset_jki(i,j,k) what y holds at offset_jik(i,j,k).
ConvertedBack(n, y) ==
    [x \in 1 .. Cells(n) |->
        LET c == CHOOSE c \in Cube(n) : offset_jki(n, c[1], c[2], c[3]) = x - 1
        IN y[offset_jik(n, c[1], c[2], c[3]) + 1]]

\* The conversion ran to its end and every call transferred all it was asked to.
CompletedInFull == Completed /\ anomalies = 0 /\ obs.clean

\* The round trip of the data of a run: X being the first n0*n1*n2 elements of
\* its input and Y those of its output, converting Y back with the layouts
\* swapped reproduces X; the swapped conversion is what a run with n0 and n2
\* exchanged computes (Converted with SwapDims); and the run itself undoes the
\* conversion with exchanged dimensions that yields its input.
RoundTripOfRun ==
    LET n == cfg.n
        X == SubSeq(obs.in0, 1, Cells(n))
        Y == SubSeq(files.out.data, 1, Cells(n))
    IN /\ Len(files.out.data) >= Cells(n)
       /\ ConvertedBack(n, Y) = X
       /\ ConvertedBack(n, Converted(n, X, <<>>)) = X
       /\ Converted(SwapDims(n), Y, <<>>) = ConvertedBack(n, Y)
       /\ Converted(SwapDims(n), Y, <<>>) = X
       /\ ConvertedBack(SwapDims(n), X) = Y

\* C12: round trip: converting X and converting the result back with source
\* and destination layouts swapped reproduces X on [0, n0*n1*n2), and the
\* swapped conversion is the one a run of any of the six algorithms with n0 and
\* n2 exchanged computes; stated of every conversion that runs to its end.
RoundTrip == Completed => RoundTripOfRun

\* The same for the runs in which every transfer was complete.
RoundTripFullTransfers == CompletedInFull => RoundTripOfRun

\* Every phase the command line asked for has run to its end.
RequestedPhasesDone ==
    \/ Completed
    \/ cfg.init /\ ~cfg.output_file /\ obs.phase = "initialized"

\* C13: the exit status is 0 only when every requested phase (initializer,
\* conversion) completed and no open, stat, seek, read, write or allocation
\* failed; every fatal path exits with a non-zero status, which is the
\* invalid-argument code for a configuration error; a write that returns 0
\* never leads to the exit status 0.
ExitStatusTellsFailure ==
    pc = "exited" =>
        /\ status = 0 => (RequestedPhasesDone /\ ~obs.initWriteFailed)
        /\ ConfigError(cfg) => status = EINVAL

\* The part of C13 about the runs whose initializer (if any) had no write with
\* a result <= 0 and whose exit is not the one that follows a write.
ExitStatusTellsFailureButWrites ==
    (pc = "exited" /\ ~obs.initWriteFailed /\ ~(obs.phase = "convert" /\ status = 0)) =>
        /\ status = 0 => RequestedPhasesDone
        /\ ConfigError(cfg) => status = EINVAL

\* The command line has a configuration error: a dimension that is zero (or
\* was not given), no input path, no output path in a run that does not
\* initialize, or an algorithm or driver name that is not in the tables.
ConfigurationError(c) ==
    \/ ~Positive(c.n)
    \/ ~c.input_file
    \/ ~c.output_file /\ ~c.init
    \/ c.algorithm \notin Range(algorithm_names)
    \/ c.io_driver \notin Range(io_driver_names)

\* C15: with a configuration error the process ends with the invalid-argument
\* status before any open, stat, seek, read or write is issued: main is never
\* at a call of the driver, every step it takes leaves the files and the
\* handles as they are and leads to the exit with EINVAL.
ConfigErrorBeforeIO ==
    [][ConfigurationError(cfg) =>
            /\ pc \in {"start", "check_output"}
            /\ pc' \in {"check_output", "exited"}
            /\ pc' = "exited" => status' = EINVAL
            /\ files' = files
            /\ fh' = fh
            /\ obs' = obs]_vars

\* A run without --init-input and without output path has exited, the input
\* and output files being there.
ConfigErrorBeforeIOWitness ==
    /\ pc = "exited"
    /\ status = EINVAL
    /\ ~cfg.output_file /\ ~cfg.init /\ cfg.input_file
    /\ files.in.exists /\ files.out.exists

\* C16: in a successful conversion of N = n0*n1*n2 elements the map algorithms
\* issue N reads and N writes of one element; vector_input n1*n2 reads of n0
\* elements and N writes of one element; vector_output N reads of one element
\* and n0*n1 writes of n2 elements; matrix n1 reads and n1 writes of n0*n2
\* elements and n1 seeks on each file; and every read or write comes after
\* exactly one seek on its file, to the element offset it covers.
PhysicalCalls ==
    Completed =>
        LET n == cfg.n
            N == Cells(n)
            alg == cfg.algorithm
            c == obs.ncall
        IN /\ IsMap(alg) =>
                /\ c.read = N /\ obs.sizes.read = {1}
                /\ c.write = N /\ obs.sizes.write = {1}
           /\ alg = "vector_input" =>
                /\ c.read = n[2] * n[3] /\ obs.sizes.read = {n[1]}
                /\ c.write = N /\ obs.sizes.write = {1}
           /\ alg = "vector_output" =>
                /\ c.read = N /\ obs.sizes.read = {1}
                /\ c.write = n[1] * n[2] /\ obs.sizes.write = {n[3]}
           /\ alg = "matrix" =>
                /\ c.read = n[2] /\ obs.sizes.read = {n[1] * n[3]}
                /\ c.write = n[2] /\ obs.sizes.write = {n[1] * n[3]}
                /\ c.seekIn = n[2] /\ c.seekOut = n[2]
           /\ obs.seekOk
           /\ c.seekIn = c.read
           /\ c.seekOut = c.write
           /\ obs.pend = [in |-> 0, out |-> 0]

\* vector_input has converted a cube whose three extents are larger than one.
PhysicalCallsWitness ==
    /\ Completed
    /\ cfg.algorithm = "vector_input"
    /\ cfg.n = <<2, 2, 2>>
    /\ obs.ncall = [seekIn |-> 4, read |-> 4, seekOut |-> 8, write |-> 8]

\* C17: for each of the six algorithms the initializer issues no seek and
\* writes the element positions 0,1,2,... in increasing order, the file
\* position after m written elements being m; and the file is self-describing:
\* the element at position p holds the value p, so that on success all six
\* algorithms leave the same file, SelfDescribing(n).
InitializerSelfDescribing ==
    InitializerClean =>
        /\ obs.nio = 0
        /\ fh.in.open => fh.in.pos = SizeofDouble * Len(files.in.data)
        /\ \A p \in 0 .. (Len(files.in.data) - 1) : files.in.data[p + 1] = p
        /\ obs.phase = "initialized" => files.in.data = SelfDescribing(cfg.n)

\* The same for the four algorithms whose initializer generates the values in
\* increasing order (all but jik_map and vector_output).
InitializerSelfDescribingInOrder ==
    cfg.algorithm \notin {"jik_map", "vector_output"} => InitializerSelfDescribing

\* C19: frame of the conversion phase: the reads go to the input handle and
\* the writes to the output handle, the input is opened read-only and nothing
\* changes it, so that during and after the run (successful or aborted) the
\* input file is what it was when the conversion phase opened it; and the
\* elements at positions >= n0*n1*n2 of an output file that existed before,
\* and was longer, are left as they were.
ConversionFrame ==
    /\ obs.phase \in {"validate", "convert", "done"} =>
            /\ files.in.exists
            /\ files.in.data = obs.in0
    /\ (obs.out0.exists /\ Len(obs.out0.data) > Cells(cfg.n)) =>
            /\ files.out.exists
            /\ Len(files.out.data) = Len(obs.out0.data)
            /\ \A x \in (Cells(cfg.n) + 1) .. Len(obs.out0.data) :
                    files.out.data[x] = obs.out0.data[x]

\* The same for the runs of the fd driver.
ConversionFrameFd == cfg.io_driver = "fd" => ConversionFrame

\* C20: when the initializer has run, with any algorithm and either driver,
\* and each of its writes was complete, the input file has exactly
\* 8*n0*n1*n2 bytes whatever it held before (absent, shorter, longer), so the
\* size validation that follows passes in lenient and in exact-dimensions mode.
InitializedLength ==
    (cfg.init /\ obs.initFull /\ obs.phase \notin {"config", "init"}) =>
        /\ files.in.exists
        /\ StSize(files.in) = ExpectedLength(cfg.n)
        /\ \A exact \in BOOLEAN :
                SizeCheck(StSize(files.in), ExpectedLength(cfg.n), exact) = 0
        /\ ~InputRejected

\* A run in exact-dimensions mode has initialized its input with the matrix
\* algorithm and the stream driver, and has converted it.
InitializedLengthWitness ==
    /\ Completed
    /\ cfg.init /\ obs.initFull /\ cfg.exact
    /\ cfg.algorithm = "matrix" /\ cfg.io_driver = "stream"
    /\ cfg.n = <<2, 2, 2>>

\* ------------------------------------------------- the handle interface
\* A client of one driver that opens a handle on the input file and closes it,
\* in any order and more than once, as the interface of the drivers allows.
\* pc is "h_new" before the first open, "h_failed" after an open that failed,
\* "h_open" after one that succeeded and "h_closed" after a close;
\* obs.calls records of each close whether the handle was open and the library
\* call that the close issued.
HandleInit ==
    /\ cfg \in {c \in ValidConfigs : c.algorithm = "jki_map" /\ ~c.exact /\ ~c.init /\ c.output_file}
    /\ pc = "h_new"
    /\ idx = Origin
    /\ \E fin \in InputFiles(cfg.n) : files = [in |-> fin, out |-> Absent]
    /\ fh = [in |-> Closed, out |-> Closed]
    /\ buf = [v |-> <<>>, v2 |-> <<>>]
    /\ errno = 0
    /\ status = Running
    /\ anomalies = 0
    /\ obs = [calls |-> <<>>]

\* io_driver->open(&fh, path, read_only, should_create, should_trunc): a failed
\* open leaves fd = -1 or stream = NULL in the handle.
HandleOpen ==
    /\ pc \in {"h_new", "h_failed", "h_closed"}
    /\ \E read_only \in BOOLEAN, should_create \in BOOLEAN, should_trunc \in BOOLEAN, e \in Env :
        LET r == DriverOpen(cfg.io_driver, files.in, read_only, should_create, should_trunc, e, errno)
        IN /\ files' = [files EXCEPT !.in = r.file]
           /\ errno' = r.errno
           /\ fh' = [fh EXCEPT !.in = IF r.ok THEN [open |-> TRUE, pos |-> 0] ELSE Closed]
           /\ pc' = IF r.ok THEN "h_open" ELSE "h_failed"
    /\ UNCHANGED <<cfg, idx, buf, status, anomalies, obs>>

\* io_driver->close(&fh).  fclose of a null stream is undefined: the call
\* returns, or the process is killed.
HandleClose ==
    /\ pc \in {"h_open", "h_closed"}
    /\ Len(obs.calls) < MaxCloses
    /\ LET r == DriverClose(cfg.io_driver, fh.in)
       IN /\ fh' = [fh EXCEPT !.in = r.h]
          /\ obs' = [obs EXCEPT !.calls = Append(@, [open |-> fh.in.open, call |-> r.call])]
          /\ \/ pc' = "h_closed"
             \/ r.call = "fclose_null" /\ pc' = "killed"
    /\ UNCHANGED <<cfg, idx, files, buf, errno, status, anomalies>>

HandleNext == HandleOpen \/ HandleClose

HandleSpec == HandleInit /\ [][HandleNext]_vars

\* C14: for both drivers close is idempotent: a close of a handle that is
\* closed already issues no call on the descriptor or stream (no second close
\* or fclose, no fclose of a null stream) and leaves the handle closed.
CloseIsIdempotent ==
    /\ \A x \in DOMAIN obs.calls : ~obs.calls[x].open => obs.calls[x].call = "none"
    /\ pc # "killed"
    /\ pc = "h_closed" => fh.in = Closed

\* The same for the fd driver alone.
CloseIsIdempotentFd == cfg.io_driver = "fd" => CloseIsIdempotent

\* ------------------------------------------------- unsigned arithmetic
\* The products and sums of unsigned long and size_t, taken modulo 2^WordBits
\* and evaluated from left to right as the C expressions are.
WordModulus == 2 ^ WordBits
MulW(a, b) == (a * b) % WordModulus
AddW(a, b) == (a + b) % WordModulus

\* l = sizeof(double) * n[0] * n[1] * n[2]
WordLength(n) == MulW(MulW(MulW(SizeofDouble, n[1]), n[2]), n[3])

\* v_len of vector_input, of vector_output and of matrix
WordBufferBytes(n) ==
    [vector_input |-> MulW(SizeofDouble, n[1]),
     vector_output |-> MulW(SizeofDouble, n[3]),
     matrix |-> MulW(MulW(SizeofDouble, n[1]), n[3])]

WordOffset_ijk(n, i, j, k) == AddW(AddW(MulW(MulW(i, n[3]), n[2]), MulW(n[3], j)), k)
WordOffset_jki(n, i, j, k) == AddW(AddW(MulW(MulW(j, n[1]), n[3]), MulW(n[1], k)), i)
WordOffset_jik(n, i, j, k) == AddW(AddW(MulW(MulW(j, n[1]), n[3]), MulW(n[3], i)), k)

\* fp = sizeof(double) * offset(n, i, j, k) for the three layouts
WordSeekOffsets(n, c) ==
    [ijk |-> MulW(SizeofDouble, WordOffset_ijk(n, c.i, c.j, c.k)),
     jki |-> MulW(SizeofDouble, WordOffset_jki(n, c.i, c.j, c.k)),
     jik |-> MulW(SizeofDouble, WordOffset_jik(n, c.i, c.j, c.k))]

\* The same values without the word: what the expressions mean.
TrueBufferBytes(n) ==
    [vector_input |-> SizeofDouble * n[1],
     vector_output |-> SizeofDouble * n[3],
     matrix |-> SizeofDouble * n[1] * n[3]]

TrueSeekOffsets(n, c) ==
    [ijk |-> SizeofDouble * offset_ijk(n, c.i, c.j, c.k),
     jki |-> SizeofDouble * offset_jki(n, c.i, c.j, c.k),
     jik |-> SizeofDouble * offset_jik(n, c.i, c.j, c.k)]

WordDims == [1 .. 3 -> 1 .. MaxWordDim]

\* A run in which only the arithmetic is followed: the size check of the input
\* file with the computed l, then the byte offsets of the seeks for each
\* coordinate of the cube.  obs records the computed l and buffer sizes, the
\* byte offsets computed so far per layout, and whether one of them was not its
\* mathematical value (wrapped) or was computed before for another coordinate
\* (collided).
WordInit ==
    /\ cfg \in {Config(n, "jki_map", "fd", x, FALSE, TRUE, TRUE) : n \in WordDims, x \in BOOLEAN}
    /\ pc = "w_size"
    /\ idx = Origin
    /\ \E len \in {0, Cells(cfg.n) - 1, Cells(cfg.n)} :
            files = [in |-> FileOf([x \in 1 .. len |-> 0]), out |-> Absent]
    /\ fh = [in |-> Closed, out |-> Closed]
    /\ buf = [v |-> <<>>, v2 |-> <<>>]
    /\ errno = 0
    /\ status = Running
    /\ anomalies = 0
    /\ obs = [l |-> 0, v_len |-> [vector_input |-> 0, vector_output |-> 0, matrix |-> 0],
              seen |-> [ijk |-> {}, jki |-> {}, jik |-> {}],
              wrapped |-> FALSE, collided |-> FALSE]

\* main, lines 737-746, with the malloc sizes of the algorithms
WordSizeCheck ==
    /\ pc = "w_size"
    /\ LET l == WordLength(cfg.n)
           code == SizeCheck(StSize(files.in), l, cfg.exact)
       IN /\ obs' = [obs EXCEPT !.l = l, !.v_len = WordBufferBytes(cfg.n)]
          /\ IF code # 0
             THEN Exit(code)
             ELSE /\ pc' = "w_offset"
                  /\ status' = status
    /\ UNCHANGED <<cfg, idx, files, fh, buf, errno, anomalies>>

\* the byte offsets of the seeks for the coordinate idx, and the loop step
WordOffsets ==
    /\ pc = "w_offset"
    /\ LET fp == WordSeekOffsets(cfg.n, idx)
           next == Inc(<<"j", "k", "i">>, idx, cfg.n)
       IN /\ obs' = [obs EXCEPT
                        !.seen = [a \in {"ijk", "jki", "jik"} |-> @[a] \cup {fp[a]}],
                        !.wrapped = @ \/ fp # TrueSeekOffsets(cfg.n, idx),
                        !.collided = @ \/ \E a \in {"ijk", "jki", "jik"} : fp[a] \in obs.seen[a]]
          /\ idx' = next
          /\ pc' = IF next = LoopEnd THEN "w_done" ELSE "w_offset"
    /\ UNCHANGED <<cfg, files, fh, buf, errno, status, anomalies>>

WordNext == WordSizeCheck \/ WordOffsets

WordSpec == WordInit /\ [][WordNext]_vars

\* C18: with the unsigned arithmetic of the machine word, for every triple of
\* positive dimensions the run accepts, the computed l = 8*n0*n1*n2, the sizes
\* of the scratch buffers and every byte offset 8*offset(i,j,k) are their
\* mathematical values, so that an input file shorter than 8*n0*n1*n2 bytes is
\* always rejected and no two coordinates get the same byte offset.
NoWraparound ==
    pc # "w_size" =>
        /\ obs.l = ExpectedLength(cfg.n)
        /\ obs.v_len = TrueBufferBytes(cfg.n)
        /\ ~obs.wrapped
        /\ ~obs.collided
        /\ StSize(files.in) < ExpectedLength(cfg.n) => (pc = "exited" /\ status = EINVAL)

\* The same for the dimensions whose 8*n0*n1*n2 is below 2^WordBits.
NoWraparoundInRange ==
    ExpectedLength(cfg.n) < WordModulus => NoWraparound

====
